---- MODULE Spec2Model ----
(***************************************************************************)
(* A model of the pretty-printing engine of sqlfmt (package pretty):       *)
(* the document algebra of prettier.go and the best-layout search and      *)
(* renderer of main.go.  A Go string is a sequence of one-character        *)
(* strings (its bytes); the memo key, which is only ever compared, is a    *)
(* TLA+ string built the way the String methods build it.  Further down  *)
(* come the statement pipeline FmtSQL and the JSON formatter of sqlfmt.go, *)
(* the entry paths into the pipeline, and the HTTP handler Fmt with its    *)
(* cache of results (main.go, wasm/main.go).                               *)
(***************************************************************************)
EXTENDS Integers, Sequences, FiniteSets, TLC

VARIABLES
    args,     \* the two arguments handed to Concat to build the document
    doc,      \* the document shared by every invocation (GoNil until built)
    width,    \* width[p]: the width n handed to invocation p
    ctx,      \* ctx[p]: TRUE once the Done channel of p's context is closed
    pc,       \* pc[p]: where invocation p stands in Pretty / PrettyString
    exec,     \* exec[p]: the beExec value b of invocation p
    stack,    \* stack[p]: the pending calls of be, innermost last
    heap,     \* heap[p]: the backing arrays of the []IDoc slices p allocated
    ret,      \* ret[p]: the value returned by the call that returned last
    cache,    \* cache[c]: the memo table made by the best call with id c
    sink,     \* sink[p]: the bytes written to p's strings.Builder
    err,      \* err[p]: the error PrettyString returns
    hist,     \* hist[p]: history of invocation p, read by the properties only
    call,     \* the last call of an exported constructor and how many were made
    fmt,      \* the locals of the running call of FmtSQL and what it returned
    http      \* the cache of the HTTP handler Fmt and what each request was sent

vars == <<args, doc, width, ctx, pc, exec, stack, heap, ret, cache, sink,
          err, hist, call, fmt, http>>

-----------------------------------------------------------------------------
(* Bounds of the model. *)

\* widths range over 0..MaxWidth
MaxWidth == 4
\* Nest amounts range over 1..MaxNest
MaxNest == 1
\* a producer makes at most MaxCalls calls of constructors in a row
MaxCalls == 1
\* Join, Fold and JoinGroup are handed at most MaxList documents
MaxList == 3
\* an input blob of FmtSQL is made of at most MaxPieces pieces of SQL text
MaxPieces == 4

-----------------------------------------------------------------------------
(* The document algebra (prettier.go). *)

\* the nil interface value of Go, distinct from the document Nil
GoNil == [type |-> "gonil"]

Nil == [type |-> "nil"]

Line == [type |-> "line"]

Text(s) == [type |-> "text", s |-> s]

Nest(n, d) == [type |-> "nest", n |-> n, d |-> d]

concat(a, b) == [type |-> "concat", a |-> a, b |-> b]

union(a, b) == [type |-> "union", a |-> a, b |-> b]

textX(s, d) == [type |-> "textX", s |-> s, d |-> d]

lineX(i, d) == [type |-> "lineX", i |-> i, d |-> d]

\* Concat without its test of b against Nil
ConcatKeepsNil(a, b) ==
    LET a1 == IF a.type = "gonil" THEN Nil ELSE a
        b1 == IF b.type = "gonil" THEN Nil ELSE b
    IN  IF a1 = Nil THEN b1 ELSE concat(a1, b1)

Concat(a, b) ==
    LET a1 == IF a.type = "gonil" THEN Nil ELSE a
        b1 == IF b.type = "gonil" THEN Nil ELSE b
    IN  IF a1 = Nil THEN b1
        ELSE IF b1 = Nil THEN a1
        ELSE concat(a1, b1)

RECURSIVE flattenKeepsLine(_)
\* flatten that leaves a Line as it is
flattenKeepsLine(d) ==
    CASE d = Nil -> Nil
      [] d.type = "concat" ->
            Concat(flattenKeepsLine(d.a), flattenKeepsLine(d.b))
      [] d.type = "nest" -> Nest(d.n, flattenKeepsLine(d.d))
      [] d.type = "text" -> d
      [] d = Line -> Line
      [] d.type = "union" -> flattenKeepsLine(d.a)

RECURSIVE flattenSwaps(_)
\* flatten that hands the two halves of a concat to Concat in the other order
flattenSwaps(d) ==
    CASE d = Nil -> Nil
      [] d.type = "concat" -> Concat(flattenSwaps(d.b), flattenSwaps(d.a))
      [] d.type = "nest" -> Nest(d.n, flattenSwaps(d.d))
      [] d.type = "text" -> d
      [] d = Line -> Text(<<" ">>)
      [] d.type = "union" -> flattenSwaps(d.a)

RECURSIVE flatten(_)
flatten(d) ==
    CASE d = Nil -> Nil
      [] d.type = "concat" -> Concat(flatten(d.a), flatten(d.b))
      [] d.type = "nest" -> Nest(d.n, flatten(d.d))
      [] d.type = "text" -> d
      [] d = Line -> Text(<<" ">>)
      [] d.type = "union" -> flatten(d.a)

RECURSIVE flattenPanics(_)
\* flatten(d) reaches its panic
flattenPanics(d) ==
    CASE d = Nil -> FALSE
      [] d.type = "concat" -> flattenPanics(d.a) \/ flattenPanics(d.b)
      [] d.type = "nest" -> flattenPanics(d.d)
      [] d.type = "text" -> FALSE
      [] d = Line -> FALSE
      [] d.type = "union" -> flattenPanics(d.a)
      [] OTHER -> TRUE

\* Group without flatten on the left branch
GroupUnflattened(d) == union(d, d)

Group(d) == union(flatten(d), d)

ConcatLine(a, b) == Concat(a, Concat(Line, b))

\* the call f(a, b) of a function value handed to Fold; the exported
\* functions of that type are Concat and ConcatLine
Func(f, a, b) ==
    CASE f = "Concat" -> Concat(a, b)
      [] f = "ConcatLine" -> ConcatLine(a, b)

\* Fold(f, d...): the list d, a Go slice, is a sequence
Fold(f, d) ==
    LET fold[j \in 1..Len(d)] ==
            IF j = Len(d) THEN d[j] ELSE Func(f, d[j], fold[j + 1])
    IN  IF Len(d) = 0 THEN Nil ELSE fold[1]

RECURSIVE JoinSepAfterLast(_, _)
\* Join that puts the separator after the last element too
JoinSepAfterLast(s, d) ==
    CASE Len(d) = 0 -> Nil
      [] Len(d) = 1 -> Concat(d[1], Text(s))
      [] OTHER ->
            Fold("Concat",
                 <<d[1], Text(s), Line, JoinSepAfterLast(s, Tail(d))>>)

RECURSIVE Join(_, _)
Join(s, d) ==
    CASE Len(d) = 0 -> Nil
      [] Len(d) = 1 -> d[1]
      [] OTHER -> Fold("Concat", <<d[1], Text(s), Line, Join(s, Tail(d))>>)

JoinGroup(name, divider, d) ==
    Group(Concat(Text(name), Nest(1, Concat(Line, Group(Join(divider, d))))))

\* the unions with Text("") instead of Line keep the flat form free of spaces
Bracket(l, x, r) ==
    Group(Fold("Concat",
               <<Text(l),
                 Nest(2, Concat(union(Text(<<>>), Line), x)),
                 union(Text(<<>>), Line),
                 Text(r)>>))

-----------------------------------------------------------------------------
(* The String methods that build the memo key (prettier.go, main.go). *)

RECURSIVE GoString(_)
\* the Go string holding the bytes s
GoString(s) == IF s = <<>> THEN "" ELSE Head(s) \o GoString(Tail(s))

\* fmt's %q of a string without characters that need escaping
Quote(s) == "\"" \o GoString(s) \o "\""

RECURSIVE DocString(_)
DocString(d) ==
    CASE d.type = "text" -> "(" \o Quote(d.s) \o ")"
      [] d.type = "line" -> "LINE"
      [] d.type = "nil" -> "NIL"
      [] d.type = "concat" ->
            "(" \o DocString(d.a) \o " <> " \o DocString(d.b) \o ")"
      [] d.type = "nest" ->
            "(NEST " \o ToString(d.n) \o " " \o DocString(d.d) \o ")"
      [] d.type = "union" ->
            "(" \o DocString(d.a) \o " :<|> " \o DocString(d.b) \o ")"
      [] d.type = "textX" ->
            "(" \o GoString(d.s) \o " TEXTX " \o DocString(d.d) \o ")"
      [] d.type = "lineX" ->
            "(" \o ToString(d.i) \o " LINEX " \o DocString(d.d) \o ")"

IDoc(i, d) == [i |-> i, d |-> d]

IDocString(x) == "{" \o ToString(x.i) \o ": " \o DocString(x.d) \o "}"

RECURSIVE WorklistString(_)
\* the strings.Builder loop over the worklist at a union
WorklistString(xs) ==
    IF xs = <<>> THEN ""
    ELSE IDocString(Head(xs)) \o WorklistString(Tail(xs))

-----------------------------------------------------------------------------
(* The best-layout search (main.go).  A machine m is the state one         *)
(* invocation of best works on: its pending calls of be (stack), the       *)
(* backing arrays of its worklist slices (heap), the value the last call   *)
(* returned (ret) and the contents of its memo table (cache).  A slice is  *)
(* a backing array and an offset; every slice reaches to the end of its    *)
(* array.                                                                  *)

Slice(arr, off) == [arr |-> arr, off |-> off]

\* the elements of slice x
Elems(m, x) == SubSeq(m.heap[x.arr], x.off + 1, Len(m.heap[x.arr]))

\* a call of be(k, x...) that has not run yet
Frame(k, x) ==
    [pc |-> "be", k |-> k, x |-> x, t |-> <<>>, i |-> 0,
     s |-> "", n |-> Slice(0, 0), tb |-> Nil]

Top(m) == m.stack[Len(m.stack)]

\* the innermost call returns v to its caller
Return(m, v) ==
    [m EXCEPT !.stack = SubSeq(@, 1, Len(@) - 1), !.ret = v]

\* the innermost call, left as frame f, calls be(k, x...)
Call(m, f, k, x) ==
    [m EXCEPT !.stack = Append([@ EXCEPT ![Len(@)] = f], Frame(k, x))]

RECURSIVE fitsTight(_, _)
\* fits refusing a remaining width of 0
fitsTight(w, x) ==
    IF w <= 0 THEN FALSE
    ELSE IF x = Nil THEN TRUE
    ELSE IF x.type = "textX" THEN fitsTight(w - Len(x.s), x.d)
    ELSE x.type = "lineX"

RECURSIVE fits(_, _)
fits(w, x) ==
    IF w < 0 THEN FALSE
    ELSE IF x = Nil THEN TRUE
    ELSE IF x.type = "textX" THEN fits(w - Len(x.s), x.d)
    ELSE x.type = "lineX"

RECURSIVE fitsPanics(_, _)
\* fits(w, x) reaches its panic: a node that is not Nil, textX or lineX
fitsPanics(w, x) ==
    IF w < 0 THEN FALSE
    ELSE IF x = Nil THEN FALSE
    ELSE IF x.type = "textX" THEN fitsPanics(w - Len(x.s), x.d)
    ELSE x.type # "lineX"

\* be without the lookup in the memo table
beCaseNoMemo(m, done) ==
    LET f == Top(m)
        x == Elems(m, f.x)
    IN  IF done THEN "done"
        ELSE IF Len(x) = 0 THEN "empty"
        ELSE IF x[1].d = Nil THEN "nil"
        ELSE IF x[1].d.type \in {"concat", "nest", "text", "line", "union"}
             THEN x[1].d.type
        ELSE "panic"

\* be without the select on b.done at its top
beCaseNoSelect(m, done) ==
    LET f == Top(m)
        x == Elems(m, f.x)
    IN  IF Len(x) = 0 THEN "empty"
        ELSE IF x[1].d = Nil THEN "nil"
        ELSE IF x[1].d.type \in {"concat", "nest", "text", "line"}
             THEN x[1].d.type
        ELSE IF x[1].d.type = "union"
             THEN IF WorklistString(x) \in DOMAIN m.cache
                  THEN "cached" ELSE "union"
        ELSE "panic"

\* which branch of be the innermost call takes; done is the state of b.done
beCase(m, done) ==
    LET f == Top(m)
        x == Elems(m, f.x)
    IN  IF done THEN "done"
        ELSE IF Len(x) = 0 THEN "empty"
        ELSE IF x[1].d = Nil THEN "nil"
        ELSE IF x[1].d.type \in {"concat", "nest", "text", "line"}
             THEN x[1].d.type
        ELSE IF x[1].d.type = "union"
             THEN IF WorklistString(x) \in DOMAIN m.cache
                  THEN "cached" ELSE "union"
        ELSE "panic"

\* be returning a nil Doc where it returns Nil
beReturnsGoNil(m) == Return(m, GoNil)

\* select on b.done succeeds, or the worklist is empty: return Nil
beReturnNil(m) == Return(m, Nil)

\* the Nil branch calling be on x instead of z
beNilKeepsHead(m) ==
    LET f == Top(m)
    IN  Call(m, [f EXCEPT !.pc = "tail"], f.k, Slice(f.x.arr, f.x.off))

\* d.d == Nil: return b.be(k, z...)
beNil(m) ==
    LET f == Top(m)
    IN  Call(m, [f EXCEPT !.pc = "tail"], f.k, Slice(f.x.arr, f.x.off + 1))

\* concat: return b.be(k, append([]IDoc{{d.i, t.a}, {d.i, t.b}}, z...)...)
beConcat(m) ==
    LET f == Top(m)
        x == Elems(m, f.x)
        d == x[1]
        new == <<IDoc(d.i, d.d.a), IDoc(d.i, d.d.b)>> \o Tail(x)
        m1 == [m EXCEPT !.heap = Append(@, new)]
    IN  Call(m1, [f EXCEPT !.pc = "tail"], f.k, Slice(Len(m1.heap), 0))

\* the element the nest branch stores into x[0]
nestHead(d) == IDoc(d.i + d.d.n, d.d.d)

\* nest: x[0] = IDoc{d: t.d, i: d.i + t.n}; return b.be(k, x...)
beNest(m) ==
    LET f == Top(m)
        d == Elems(m, f.x)[1]
        m1 == [m EXCEPT !.heap[f.x.arr][f.x.off + 1] = nestHead(d)]
    IN  Call(m1, [f EXCEPT !.pc = "tail"], f.k, f.x)

\* text: return textX{s: string(t), d: b.be(k+len(t), z...)}
beText(m) ==
    LET f == Top(m)
        d == Elems(m, f.x)[1]
    IN  Call(m, [f EXCEPT !.pc = "text", !.t = d.d.s],
             f.k + Len(d.d.s), Slice(f.x.arr, f.x.off + 1))

\* Line: return lineX{i: d.i, d: b.be(d.i, z...)}
beLine(m) ==
    LET f == Top(m)
        d == Elems(m, f.x)[1]
    IN  Call(m, [f EXCEPT !.pc = "line", !.i = d.i],
             d.i, Slice(f.x.arr, f.x.off + 1))

\* union, memo hit: return cached
beCached(m) == Return(m, m.cache[WorklistString(Elems(m, Top(m).x))])

\* union, memo miss: n := append([]IDoc{{d.i, t.a}}, z...); the first
\* argument of better, b.be(k, n...), is evaluated
beUnion(m) ==
    LET f == Top(m)
        x == Elems(m, f.x)
        d == x[1]
        m1 == [m EXCEPT !.heap = Append(@, <<IDoc(d.i, d.d.a)>> \o Tail(x))]
        nn == Slice(Len(m1.heap), 0)
    IN  Call(m1, [f EXCEPT !.pc = "better", !.s = WorklistString(x),
                           !.n = nn, !.tb = d.d.b],
             f.k, nn)

\* a call that returns what its callee returned (the Nil, concat and nest
\* branches)
retTail(m) == Return(m, m.ret)

\* the text branch returns textX{s, d}
retText(m) == Return(m, textX(Top(m).t, m.ret))

\* the Line branch returns lineX{i, d}
retLine(m) == Return(m, lineX(Top(m).i, m.ret))

\* the memo table after b.cache[s] = res
store(c, s, res) == (s :> res) @@ c

\* better(w, k, x, y) with fits(w-k, x): res is x; b.cache[s] = res
betterFits(m) ==
    Return([m EXCEPT !.cache = store(@, Top(m).s, m.ret)], m.ret)

\* the worklist element n[0] after the closure's n[0].d = t.b
retryHead(old, tb) == [old EXCEPT !.d = tb]

\* better calls y(): n[0].d = t.b; return b.be(k, n...)
betterRetry(m) ==
    LET f == Top(m)
        m1 == [m EXCEPT !.heap[f.n.arr][1] = retryHead(@, f.tb)]
    IN  Call(m1, [f EXCEPT !.pc = "y"], f.k, f.n)

\* y() returned: res is its value; b.cache[s] = res; return res
retRetry(m) ==
    Return([m EXCEPT !.cache = store(@, Top(m).s, m.ret)], m.ret)

\* one step of the search of a machine whose stack is not empty
be(m, w, done) ==
    LET f == Top(m)
        c == beCase(m, done)
    IN  CASE f.pc = "tail" -> retTail(m)
          [] f.pc = "text" -> retText(m)
          [] f.pc = "line" -> retLine(m)
          [] f.pc = "better" ->
                IF fits(w - f.k, m.ret) THEN betterFits(m) ELSE betterRetry(m)
          [] f.pc = "y" -> retRetry(m)
          [] f.pc = "be" /\ c \in {"done", "empty"} -> beReturnNil(m)
          [] f.pc = "be" /\ c = "nil" -> beNil(m)
          [] f.pc = "be" /\ c = "concat" -> beConcat(m)
          [] f.pc = "be" /\ c = "nest" -> beNest(m)
          [] f.pc = "be" /\ c = "text" -> beText(m)
          [] f.pc = "be" /\ c = "line" -> beLine(m)
          [] f.pc = "be" /\ c = "cached" -> beCached(m)
          [] f.pc = "be" /\ c = "union" -> beUnion(m)

\* the machine of best at its call b.be(k, IDoc{0, x}), the memo table
\* just made
bestCall(k, x) ==
    [stack |-> <<Frame(k, Slice(1, 0))>>, heap |-> <<<<IDoc(0, x)>>>>,
     ret |-> Nil, cache |-> <<>>]

RECURSIVE beRun(_, _)
\* the value the outermost call of be returns when b.done never fires
beRun(m, w) == IF m.stack = <<>> THEN m.ret ELSE beRun(be(m, w, FALSE), w)

\* best(ctx, w, k, x) under a context that is never cancelled
best(w, k, x) == beRun(bestCall(k, x), w)

\* one step of the search that has no memo table (the be of the engine
\* before the table was added): no worklist is ever found in the table
beUnmemoized(m, w) == be([m EXCEPT !.cache = <<>>], w, FALSE)

RECURSIVE beRunUnmemoized(_, _)
beRunUnmemoized(m, w) ==
    IF m.stack = <<>> THEN m.ret
    ELSE beRunUnmemoized(beUnmemoized(m, w), w)

\* best(ctx, w, k, x) of the engine without the memo table
bestUnmemoized(w, k, x) == beRunUnmemoized(bestCall(k, x), w)

-----------------------------------------------------------------------------
(* The renderer (main.go). *)

RECURSIVE Spaces(_)
\* bytes.Repeat([]byte{' '}, i)
Spaces(i) == IF i <= 0 THEN <<>> ELSE <<" ">> \o Spaces(i - 1)

\* the lineX case of an earlier layout: six spaces for each unit of indent
layoutWriteSixfold(d) ==
    IF d.type = "textX" THEN d.s
    ELSE <<"\n">> \o Spaces(6 * d.i)

\* the bytes one call of layout writes for the node d
layoutWrite(d) ==
    IF d.type = "textX" THEN d.s ELSE <<"\n">> \o Spaces(d.i)

RECURSIVE layoutPanics(_)
\* layout(w, d) reaches its panic
layoutPanics(d) ==
    IF d = Nil THEN FALSE
    ELSE IF d.type \in {"textX", "lineX"} THEN layoutPanics(d.d)
    ELSE TRUE

RECURSIVE layout(_)
\* the bytes layout(w, d) writes to a sink that never fails
layout(d) == IF d = Nil THEN <<>> ELSE layoutWrite(d) \o layout(d.d)

\* PrettyString(ctx, d, n) under a context that is never cancelled
PrettyString(d, w) == layout(best(w, 0, d))

-----------------------------------------------------------------------------
(* The documents and widths the invocations are run on. *)

Atoms == {Text(<<"a">>), Text(<<"a", "a">>), Line}

Seqs == Atoms \cup {Concat(x, y) : x, y \in Atoms}

Parts ==
    {GoNil, Nil} \cup Seqs
    \cup {Group(d) : d \in Seqs}
    \cup {Group(Nest(i, d)) : i \in 1..MaxNest, d \in Seqs}

Widths == 0..MaxWidth

-----------------------------------------------------------------------------
(* The state machine: PrettyString run step by step by each invocation. *)

Procs == DOMAIN pc

Canceled == "context canceled"

\* the machine invocation p works on
M(p) ==
    [stack |-> stack[p], heap |-> heap[p], ret |-> ret[p],
     cache |-> cache[exec[p].cache]]

\* invocation p leaves its machine as m
Apply(p, m) ==
    /\ stack' = [stack EXCEPT ![p] = m.stack]
    /\ heap' = [heap EXCEPT ![p] = m.heap]
    /\ ret' = [ret EXCEPT ![p] = m.ret]
    /\ cache' = [cache EXCEPT ![exec[p].cache] = m.cache]

\* one memo table for every invocation, made anew by each call of best
newMapShared(p) == 1

\* the identity of the map made by make(map[string]Doc) in p's call of best
newMap(p) == p

\* the beExec value best builds for invocation p
beExec(p) == [w |-> width[p], done |-> p, cache |-> newMap(p)]

\* invocation p is inside best and its innermost call of be stands at at
AtBe(p, at) ==
    /\ pc[p] = "best"
    /\ stack[p] # <<>>
    /\ Top(M(p)).pc = at

\* history: a call of be starts its body, observing the cancellation or not
Entered(p, observed, reduces) ==
    hist' = [hist EXCEPT
        ![p].entered = @ + 1,
        ![p].seen = IF observed
                    THEN @ \cup {IF hist[p].entered = 0 THEN "first" ELSE "later"}
                    ELSE @,
        ![p].reduced = IF reduces THEN @ + 1 ELSE @,
        ![p].since = IF ctx[p] THEN @ + 1 ELSE @]

\* history: any other step of p
Stepped(p) == hist' = [hist EXCEPT ![p].since = IF ctx[p] THEN @ + 1 ELSE @]

\* the caller builds the document: Concat(a, b)
Build ==
    /\ doc = GoNil
    /\ doc' = Concat(args[1], args[2])
    /\ UNCHANGED <<http, call, fmt, args, width, ctx, pc, exec, stack, heap, ret, cache, sink,
                   err, hist>>

\* PrettyString calls Pretty, which calls best
CallPretty(p) ==
    /\ pc[p] = "new"
    /\ doc # GoNil
    /\ pc' = [pc EXCEPT ![p] = "best"]
    /\ exec' = [exec EXCEPT ![p] = beExec(p)]
    /\ LET m == bestCall(0, doc)
       IN  /\ stack' = [stack EXCEPT ![p] = m.stack]
           /\ heap' = [heap EXCEPT ![p] = m.heap]
           /\ ret' = [ret EXCEPT ![p] = m.ret]
           /\ cache' = [cache EXCEPT ![beExec(p).cache] = m.cache]
    /\ Stepped(p)
    /\ UNCHANGED <<http, call, fmt, args, doc, width, ctx, sink, err>>

\* a step of be in branch c, which changes the machine as rule says
BeStep(p, c, m) ==
    /\ AtBe(p, "be")
    /\ beCase(M(p), ctx[exec[p].done]) = c
    /\ Apply(p, m)
    /\ Entered(p, c = "done", c \notin {"done", "empty", "cached"})
    /\ UNCHANGED <<http, call, fmt, args, doc, width, ctx, pc, exec, sink, err>>

BeDone(p) == BeStep(p, "done", beReturnNil(M(p)))

BeEmpty(p) == BeStep(p, "empty", beReturnNil(M(p)))

BeNil(p) == BeStep(p, "nil", beNil(M(p)))

BeConcat(p) == BeStep(p, "concat", beConcat(M(p)))

BeNest(p) == BeStep(p, "nest", beNest(M(p)))

BeText(p) == BeStep(p, "text", beText(M(p)))

BeLine(p) == BeStep(p, "line", beLine(M(p)))

BeCached(p) == BeStep(p, "cached", beCached(M(p)))

BeUnion(p) == BeStep(p, "union", beUnion(M(p)))

\* a step of a call of be whose callee has returned
RetStep(p, at, m) ==
    /\ AtBe(p, at)
    /\ Apply(p, m)
    /\ Stepped(p)
    /\ UNCHANGED <<http, call, fmt, args, doc, width, ctx, pc, exec, sink, err>>

RetTail(p) == RetStep(p, "tail", retTail(M(p)))

RetText(p) == RetStep(p, "text", retText(M(p)))

RetLine(p) == RetStep(p, "line", retLine(M(p)))

BetterFits(p) ==
    /\ AtBe(p, "better")
    /\ fits(exec[p].w - Top(M(p)).k, ret[p])
    /\ RetStep(p, "better", betterFits(M(p)))

BetterRetry(p) ==
    /\ AtBe(p, "better")
    /\ ~fits(exec[p].w - Top(M(p)).k, ret[p])
    /\ RetStep(p, "better", betterRetry(M(p)))

RetRetry(p) == RetStep(p, "y", retRetry(M(p)))

\* Pretty without its select on ctx.Done()
prettySelectNever(done) == FALSE

\* the select of Pretty after best: TRUE when the case <-ctx.Done() is taken
prettySelect(done) == done

\* Pretty after best: the select on ctx.Done() fires, return ctx.Err()
PrettyCancelled(p) ==
    /\ pc[p] = "best"
    /\ stack[p] = <<>>
    /\ prettySelect(ctx[p])
    /\ pc' = [pc EXCEPT ![p] = "done"]
    /\ err' = [err EXCEPT ![p] = Canceled]
    /\ Stepped(p)
    /\ UNCHANGED <<http, call, fmt, args, doc, width, ctx, exec, stack, heap, ret, cache, sink>>

\* Pretty after best: the select takes its default, return layout(w, b)
PrettyLayout(p) ==
    /\ pc[p] = "best"
    /\ stack[p] = <<>>
    /\ ~prettySelect(ctx[p])
    /\ pc' = [pc EXCEPT ![p] = "layout"]
    /\ Stepped(p)
    /\ UNCHANGED <<http, call, fmt, args, doc, width, ctx, exec, stack, heap, ret, cache, sink,
                   err>>

\* layout writes a textX or lineX node and goes on with the rest
LayoutWrite(p) ==
    /\ pc[p] = "layout"
    /\ ret[p] # Nil
    /\ sink' = [sink EXCEPT ![p] = @ \o layoutWrite(ret[p])]
    /\ ret' = [ret EXCEPT ![p] = @.d]
    /\ Stepped(p)
    /\ UNCHANGED <<http, call, fmt, args, doc, width, ctx, pc, exec, stack, heap, cache, err>>

\* layout reaches Nil: Pretty returns nil, PrettyString returns sb.String()
LayoutNil(p) ==
    /\ pc[p] = "layout"
    /\ ret[p] = Nil
    /\ pc' = [pc EXCEPT ![p] = "done"]
    /\ Stepped(p)
    /\ UNCHANGED <<http, call, fmt, args, doc, width, ctx, exec, stack, heap, ret, cache, sink,
                   err>>

\* the errors the Write of a sink may return
SinkErrors == {"short write", "closed pipe"}

\* layout drops the error of Write
layoutErrDropped(e) == "nil"

\* what layout returns when Write returned the error e: return err
layoutErr(e) == e

\* layout writes a textX or lineX node and the Write fails with the error e
\* after n bytes: layout returns at once, and Pretty returns what it returned
LayoutWriteError(p) ==
    /\ pc[p] = "layout"
    /\ ret[p] # Nil
    /\ \E e \in SinkErrors, n \in 0..Len(layoutWrite(ret[p])) :
            /\ sink' = [sink EXCEPT ![p] = @ \o SubSeq(layoutWrite(ret[p]), 1, n)]
            /\ err' = [err EXCEPT ![p] = layoutErr(e)]
            /\ hist' = [hist EXCEPT
                    ![p].since = IF ctx[p] THEN @ + 1 ELSE @,
                    ![p].werr = e,
                    ![p].wrote = Len(sink[p]) + n]
    /\ pc' = [pc EXCEPT ![p] = "done"]
    /\ UNCHANGED <<http, call, fmt, args, doc, width, ctx, exec, stack, heap, ret,
                   cache>>

\* history: the steps a pending call of be may still take once cancelled: it
\* returns, and a call waiting to run better first does one fits test and
\* one retry that returns at once
FrameCost(f) == IF f.pc = "better" THEN 3 ELSE 1

RECURSIVE StackCost(_)
StackCost(fs) ==
    IF fs = <<>> THEN 0 ELSE FrameCost(Head(fs)) + StackCost(Tail(fs))

\* the owner of p's context cancels it: the Done channel is closed
Cancel(p) ==
    /\ ~ctx[p]
    /\ pc[p] # "done"
    /\ ctx' = [ctx EXCEPT ![p] = TRUE]
    /\ hist' = [hist EXCEPT
            ![p].budget = IF pc[p] = "best" THEN StackCost(stack[p]) + 1 ELSE -1,
            ![p].pending = Len(stack[p])]
    /\ UNCHANGED <<http, call, fmt, args, doc, width, pc, exec, stack, heap, ret, cache, sink,
                   err>>

\* no constructor has been called
NoCall == [f |-> "none", s |-> <<>>, d |-> <<>>, made |-> 0]

\* FmtSQL has not been called
NoFmt == [pc |-> "idle"]

\* the handler Fmt has served no request: its cache is the empty map
NoHttp == [m |-> <<>>, res |-> <<>>]

NoHist ==
    [entered |-> 0, seen |-> {}, reduced |-> 0, since |-> 0, budget |-> -1,
     pending |-> 0, werr |-> "nil", wrote |-> 0]

\* the state before invocations ps are started on Concat(a, b)
Start(ps, as, ws) ==
    /\ args \in as
    /\ doc = GoNil
    /\ width \in [ps -> ws]
    /\ ctx = [p \in ps |-> FALSE]
    /\ pc = [p \in ps |-> "new"]
    /\ exec = [p \in ps |-> [w |-> 0, done |-> p, cache |-> p]]
    /\ stack = [p \in ps |-> <<>>]
    /\ heap = [p \in ps |-> <<>>]
    /\ ret = [p \in ps |-> Nil]
    /\ cache = [p \in ps |-> <<>>]
    /\ sink = [p \in ps |-> <<>>]
    /\ err = [p \in ps |-> "nil"]
    /\ hist = [p \in ps |-> NoHist]
    /\ call = NoCall
    /\ fmt = NoFmt
    /\ http = NoHttp

Init == Start({1}, Parts \X Parts, Widths)

Next ==
    \/ Build
    \/ \E p \in Procs : CallPretty(p)
    \/ \E p \in Procs : BeEmpty(p)
    \/ \E p \in Procs : BeNil(p)
    \/ \E p \in Procs : BeConcat(p)
    \/ \E p \in Procs : BeNest(p)
    \/ \E p \in Procs : BeText(p)
    \/ \E p \in Procs : BeLine(p)
    \/ \E p \in Procs : BeCached(p)
    \/ \E p \in Procs : BeUnion(p)
    \/ \E p \in Procs : RetTail(p)
    \/ \E p \in Procs : RetText(p)
    \/ \E p \in Procs : RetLine(p)
    \/ \E p \in Procs : BetterFits(p)
    \/ \E p \in Procs : BetterRetry(p)
    \/ \E p \in Procs : RetRetry(p)
    \/ \E p \in Procs : PrettyLayout(p)
    \/ \E p \in Procs : LayoutWrite(p)
    \/ \E p \in Procs : LayoutNil(p)

\* one invocation under a context that is never cancelled
Spec == Init /\ [][Next]_vars

\* the documents of the runs with cancellation
CancelArgs == Parts \X {Nil, Group(Concat(Line, Line))}

InitCancel == Start({1}, CancelArgs, Widths)

NextCancel ==
    \/ Next
    \/ \E p \in Procs : Cancel(p)
    \/ \E p \in Procs : BeDone(p)
    \/ \E p \in Procs : PrettyCancelled(p)

\* one invocation whose context may be cancelled at any moment
SpecCancel == InitCancel /\ [][NextCancel]_vars

\* the documents of the concurrent runs
ConcArgs ==
    {Nil, Group(Concat(Text(<<"a", "a">>), Line)), Group(Nest(1, Line))}
        \X {Nil, Group(Concat(Line, Line))}

InitConc == Start({1, 2}, ConcArgs, Widths)

\* two invocations on the same document, interleaved in every way
SpecConc == InitConc /\ [][Next]_vars

\* the calls Bracket(l, x, r) whose result is rendered
BracketCalls ==
    {<<"[">>, <<"[", "[">>}
        \X {Text(<<"a">>), Text(<<"a", "a">>),
            ConcatLine(Text(<<"a">>), Text(<<"a">>)),
            Group(ConcatLine(Text(<<"a">>), Text(<<"a">>))),
            Join(<<",">>, <<Text(<<"a">>), Text(<<"a">>)>>),
            Group(Nil)}
        \X {<<"]">>, <<"]", "]">>}

BracketArgs == {<<GoNil, Bracket(c[1], c[2], c[3])>> : c \in BracketCalls}

InitBracket == Start({1}, BracketArgs, Widths)

\* one invocation on a document made by Bracket, never cancelled
SpecBracket == InitBracket /\ [][Next]_vars

\* one invocation, never cancelled, that goes on as long as it has a step to
\* take: a goroutine that is not blocked is scheduled again
LiveArgs ==
    BracketArgs \cup {<<Group(d), Group(Nest(1, d))>> : d \in Seqs}

InitLive == Start({1}, LiveArgs, Widths)

SpecLive == InitLive /\ [][Next]_vars /\ WF_vars(Next)

NextSink ==
    \/ Next
    \/ \E p \in Procs : LayoutWriteError(p)

\* one invocation, never cancelled, writing to a sink whose Write may fail
SpecSink == InitBracket /\ [][NextSink]_vars

-----------------------------------------------------------------------------
(* The HTTP handler Fmt (main.go) and its cache of results.  Every request *)
(* carries the same SQL text, one statement whose document is doc, and its *)
(* own n, so that the query string r.URL.RawQuery is told by n alone.      *)
(* r.Context() is cancelled when the client goes away.                     *)

\* the cache is emptied once it holds more than CacheLimit results
CacheLimit == 10000

\* r.URL.RawQuery of request p
RawQuery(p) == width[p]

\* Fmt finds the query in the cache and returns the hit
FmtHit(p) ==
    /\ pc[p] = "lookup"
    /\ RawQuery(p) \in DOMAIN http.m
    /\ http' = [http EXCEPT !.res = (p :> http.m[RawQuery(p)]) @@ @]
    /\ pc' = [pc EXCEPT ![p] = "served"]
    /\ Stepped(p)
    /\ UNCHANGED <<call, fmt, args, doc, width, ctx, exec, stack, heap, ret,
                   cache, sink, err>>

\* Fmt does not find the query: it parses n and the SQL and goes on to call
\* pretty.PrettyString(r.Context(), tree.Doc(s), n)
FmtMiss(p) ==
    /\ pc[p] = "lookup"
    /\ RawQuery(p) \notin DOMAIN http.m
    /\ pc' = [pc EXCEPT ![p] = "new"]
    /\ Stepped(p)
    /\ UNCHANGED <<http, call, fmt, args, doc, width, ctx, exec, stack, heap,
                   ret, cache, sink, err>>

\* PrettyString has returned: res[i], _ = ..., the error is dropped; the
\* cache is emptied if it is full, res is stored under the query and returned
FmtStore(p) ==
    /\ pc[p] = "done"
    /\ LET m == IF Cardinality(DOMAIN http.m) > CacheLimit THEN <<>>
                ELSE http.m
       IN  http' = [m |-> (RawQuery(p) :> sink[p]) @@ m,
                    res |-> (p :> sink[p]) @@ http.res]
    /\ pc' = [pc EXCEPT ![p] = "served"]
    /\ Stepped(p)
    /\ UNCHANGED <<call, fmt, args, doc, width, ctx, exec, stack, heap, ret,
                   cache, sink, err>>

\* the widths n of the requests
HttpWidths == {0, MaxWidth}

\* the documents of the statement the requests carry
HttpArgs ==
    {<<Nil, Nil>>, <<Group(Nest(1, Line)), Group(Concat(Line, Line))>>}

InitHttp ==
    /\ args \in HttpArgs
    /\ doc = GoNil
    /\ width \in [{1, 2} -> HttpWidths]
    /\ ctx = [p \in {1, 2} |-> FALSE]
    /\ pc = [p \in {1, 2} |-> "lookup"]
    /\ exec = [p \in {1, 2} |-> [w |-> 0, done |-> p, cache |-> p]]
    /\ stack = [p \in {1, 2} |-> <<>>]
    /\ heap = [p \in {1, 2} |-> <<>>]
    /\ ret = [p \in {1, 2} |-> Nil]
    /\ cache = [p \in {1, 2} |-> <<>>]
    /\ sink = [p \in {1, 2} |-> <<>>]
    /\ err = [p \in {1, 2} |-> "nil"]
    /\ hist = [p \in {1, 2} |-> NoHist]
    /\ call = NoCall
    /\ fmt = NoFmt
    /\ http = NoHttp

NextHttp ==
    \/ NextCancel
    \/ \E p \in Procs : FmtHit(p)
    \/ \E p \in Procs : FmtMiss(p)
    \/ \E p \in Procs : FmtStore(p)

\* two requests served at once, each of which the client may abandon
SpecHttp == InitHttp /\ [][NextHttp]_vars

-----------------------------------------------------------------------------
(* The exported constructors called one after another by a producer of     *)
(* documents, each on the document built so far (prettier.go).  A nil Doc  *)
(* is handed to Concat and ConcatLine only, which turn it into Nil.        *)

\* the documents without a node under them
Leaves == {Nil, Text(<<"a">>), Text(<<>>), Line}

\* the documents a producer has at hand when it starts
Made0 ==
    {Nil, Text(<<"a">>), Line, Nest(1, Line),
     Group(ConcatLine(Text(<<"a">>), Text(<<"a">>)))}

\* the lists of documents handed to a variadic constructor
Lists == UNION {[1..n -> {doc, Text(<<"a">>), Nil}] : n \in 0..MaxList}

\* no invocation of PrettyString is made
NoInvocation ==
    /\ args = <<Nil, Nil>>
    /\ width = <<>>
    /\ ctx = <<>>
    /\ pc = <<>>
    /\ exec = <<>>
    /\ stack = <<>>
    /\ heap = <<>>
    /\ ret = <<>>
    /\ cache = <<>>
    /\ sink = <<>>
    /\ err = <<>>
    /\ hist = <<>>

\* the constructor f, called with the string s and the documents d,
\* returned r
Made(f, s, d, r) ==
    /\ call.made < MaxCalls
    /\ doc' = r
    /\ call' = [f |-> f, s |-> s, d |-> d, made |-> call.made + 1]
    /\ UNCHANGED <<http, fmt, args, width, ctx, pc, exec, stack, heap, ret,
                   cache, sink, err, hist>>

CallNest == \E n \in 1..MaxNest : Made("Nest", <<>>, <<doc>>, Nest(n, doc))

CallGroup == Made("Group", <<>>, <<doc>>, Group(doc))

CallConcat ==
    \E x \in Leaves \cup {GoNil} :
        \/ Made("Concat", <<>>, <<doc, x>>, Concat(doc, x))
        \/ Made("Concat", <<>>, <<x, doc>>, Concat(x, doc))

CallConcatLine ==
    \E x \in {GoNil, Text(<<"a">>)} :
        Made("ConcatLine", <<>>, <<doc, x>>, ConcatLine(doc, x))

CallJoin == \E d \in Lists : Made("Join", <<",">>, d, Join(<<",">>, d))

CallFold ==
    \E f \in {"Concat", "ConcatLine"}, d \in Lists :
        Made("Fold", <<>>, d, Fold(f, d))

CallJoinGroup ==
    \E d \in Lists :
        Made("JoinGroup", <<",">>, d, JoinGroup(<<"a">>, <<",">>, d))

CallBracket == Made("Bracket", <<>>, <<doc>>, Bracket(<<"[">>, doc, <<"]">>))

InitBuild ==
    /\ doc \in Made0
    /\ call = NoCall
    /\ fmt = NoFmt
    /\ http = NoHttp
    /\ NoInvocation

NextBuild ==
    \/ CallNest
    \/ CallGroup
    \/ CallConcat
    \/ CallConcatLine
    \/ CallJoin
    \/ CallFold
    \/ CallJoinGroup
    \/ CallBracket

\* a producer building a document out of the exported constructors
SpecBuild == InitBuild /\ [][NextBuild]_vars

-----------------------------------------------------------------------------
(* The statement pipeline (sqlfmt.go).  A Go string is the sequence of its *)
(* bytes.  The scanner and parser of the SQL library are taken by what     *)
(* FmtSQL relies on: a line comment runs from -- to the end of its line    *)
(* and counts as white space, a semicolon outside a comment ends a         *)
(* statement, a statement is the words between, an empty statement is      *)
(* dropped, and a statement with the byte x in it is a syntax error.  The  *)
(* producer cfg.Pretty writes the words of a statement in upper case with  *)
(* one space between them.                                                 *)

\* the least number of the nonempty set S
Min(S) == CHOOSE x \in S : \A y \in S : x <= y

\* the greatest number of the nonempty set S
Max(S) == CHOOSE x \in S : \A y \in S : x >= y

\* unicode.IsSpace, and \s of package regexp, on the bytes of the model
IsSpace(c) == c \in {" ", "\n", "\t", "\r"}

\* strings.TrimRightFunc(s, unicode.IsSpace) that trims nothing
TrimRightNothing(s) == s

\* strings.TrimRightFunc(s, unicode.IsSpace)
TrimRightFunc(s) ==
    LET js == {j \in 1..Len(s) : ~IsSpace(s[j])}
    IN  IF js = {} THEN <<>> ELSE SubSeq(s, 1, Max(js))

\* strings.TrimSpace(s)
TrimSpace(s) ==
    LET js == {j \in 1..Len(s) : ~IsSpace(s[j])}
    IN  IF js = {} THEN <<>> ELSE SubSeq(s, Min(js), Max(js))

\* ignoreComments.FindString(s), the regular expression being ^--.*\s*
FindString(s) ==
    IF Len(s) < 2 \/ s[1] # "-" \/ s[2] # "-" THEN <<>>
    ELSE LET nl == {j \in 3..Len(s) : s[j] = "\n"}
             e == IF nl = {} THEN Len(s) + 1 ELSE Min(nl)
             ns == {j \in e..Len(s) : ~IsSpace(s[j])}
             f == IF ns = {} THEN Len(s) + 1 ELSE Min(ns)
         IN  SubSeq(s, 1, f - 1)

\* strings.Count(s, "\n")
Count(s) == Cardinality({j \in 1..Len(s) : s[j] = "\n"})

\* strings.Repeat("\n", n)
Repeat(n) == [j \in 1..n |-> "\n"]

\* the newlines FmtSQL keeps after a comment
newlines(found) == IF Count(found) > 2 THEN 2 ELSE Count(found)

\* the scanner: byte j of sql lies in a line comment
InComment(sql, j) ==
    \E k \in 1..j :
        /\ k < Len(sql)
        /\ sql[k] = "-"
        /\ sql[k + 1] = "-"
        /\ \A i \in k..j : sql[i] # "\n"

\* the scanner: sql with its comments blanked
Scanned(sql) ==
    [j \in 1..Len(sql) |-> IF InComment(sql, j) THEN " " ELSE sql[j]]

\* parser.SplitFirstStatement(sql): the length of the prefix up to and
\* including the first semicolon, 0 when there is none
SplitFirstStatement(sql) ==
    LET semis == {j \in 1..Len(sql) : Scanned(sql)[j] = ";"}
    IN  IF semis = {} THEN 0 ELSE Min(semis)

RECURSIVE SplitAt(_, _)
\* the pieces of s between its bytes of the set seps
SplitAt(s, seps) ==
    LET js == {j \in 1..Len(s) : s[j] \in seps}
    IN  IF js = {} THEN <<s>>
        ELSE <<SubSeq(s, 1, Min(js) - 1)>>
                \o SplitAt(SubSeq(s, Min(js) + 1, Len(s)), seps)

\* the words of a piece of SQL text
Words(s) ==
    SelectSeq(SplitAt(s, {" ", "\n", "\t", "\r"}), LAMBDA w : w # <<>>)

\* the statements parser.Parse finds in sql, each the sequence of its words
Statements(sql) ==
    LET pieces == SplitAt(Scanned(sql), {";"})
    IN  SelectSeq([j \in 1..Len(pieces) |-> Words(pieces[j])],
                  LAMBDA st : st # <<>>)

\* parser.Parse(sql) returns an error
ParseFails(sql) ==
    \E j \in 1..Len(sql) : Scanned(sql)[j] = "x"

\* cfg.Pretty(parsed.AST): the words in upper case, one space between them
PrettyAST(ast) ==
    LET upper(w) == [j \in 1..Len(w) |-> IF w[j] = "a" THEN "A" ELSE w[j]]
        from[j \in 1..Len(ast)] ==
            IF j = Len(ast) THEN upper(ast[j])
            ELSE upper(ast[j]) \o <<" ">> \o from[j + 1]
    IN  IF ast = <<>> THEN <<>> ELSE from[1]

\* what FmtSQL writes after the rendering of a statement, without the newline
terminatorBare == <<";">>

\* what FmtSQL writes after the rendering of a statement
terminator == <<";", "\n">>

\* the bytes the loop over allParsed writes
writeParsed(sts) ==
    LET from[j \in 1..(Len(sts) + 1)] ==
            IF j > Len(sts) THEN <<>>
            ELSE PrettyAST(sts[j]) \o terminator \o from[j + 1]
    IN  from[1]

\* FmtSQL returning what it has accumulated along with the parser's error
errReturnKeeps(prettied) == TrimRightFunc(prettied)

\* the string FmtSQL returns along with the parser's error
errReturn(prettied) == <<>>

\* the variables FmtSQL leaves alone
Others ==
    <<http, call, args, doc, width, ctx, pc, exec, stack, heap, ret, cache, sink,
      err, hist>>

\* the range loop takes the next blob
FmtRange ==
    /\ fmt.pc = "range"
    /\ fmt.stmts # <<>>
    /\ fmt' = [fmt EXCEPT !.pc = "for", !.stmt = Head(fmt.stmts),
                          !.stmts = Tail(fmt.stmts)]
    /\ UNCHANGED Others

\* the inner loop finds the blob used up
FmtBlobDone ==
    /\ fmt.pc = "for"
    /\ Len(fmt.stmt) = 0
    /\ fmt' = [fmt EXCEPT !.pc = "range"]
    /\ UNCHANGED Others

\* the inner loop starts on a chunk
FmtChunk ==
    /\ fmt.pc = "for"
    /\ Len(fmt.stmt) > 0
    /\ fmt' = [fmt EXCEPT !.pc = "comments", !.stmt = TrimSpace(fmt.stmt),
                          !.hasContent = FALSE,
                          !.before = fmt.prettied, !.had = fmt.comments,
                          !.first = Len(fmt.stmt)]
    /\ UNCHANGED Others

\* the comment loop finds a comment and writes it
FmtComment ==
    /\ fmt.pc = "comments"
    /\ LET found == FindString(fmt.stmt)
       IN  /\ found # <<>>
           /\ fmt' = [fmt EXCEPT
                    !.prettied = @ \o TrimRightFunc(found)
                                   \o Repeat(newlines(found)),
                    !.stmt = SubSeq(@, Len(found) + 1, Len(@)),
                    !.hasContent = TRUE,
                    !.comments = @ + 1]
    /\ UNCHANGED Others

\* the remaining text left as it is when no terminator is found
splitRestKeeps(stmt, pos) ==
    IF pos > 0 THEN SubSeq(stmt, pos + 1, Len(stmt)) ELSE stmt

\* the remaining text after the split: stmt[pos:] if pos > 0, else ""
splitRest(stmt, pos) ==
    IF pos > 0 THEN SubSeq(stmt, pos + 1, Len(stmt)) ELSE <<>>

\* the comment loop breaks; the chunk is split at its first semicolon
FmtSplit ==
    /\ fmt.pc = "comments"
    /\ FindString(fmt.stmt) = <<>>
    /\ LET pos == SplitFirstStatement(fmt.stmt)
       IN  fmt' = [fmt EXCEPT
                !.pc = "parse",
                !.next = IF pos > 0 THEN SubSeq(fmt.stmt, 1, pos)
                         ELSE fmt.stmt,
                !.stmt = splitRest(fmt.stmt, pos)]
    /\ UNCHANGED Others

\* parser.Parse fails: FmtSQL returns "" and the error
FmtParseError ==
    /\ fmt.pc = "parse"
    /\ ParseFails(fmt.next)
    /\ fmt' = [fmt EXCEPT !.pc = "done", !.out = errReturn(fmt.prettied),
                          !.err = "syntax error", !.parses = @ + 1]
    /\ UNCHANGED Others

\* the newline written whether or not the iteration had content
separatorAlways(hasContent) == <<"\n">>

\* if hasContent { prettied.WriteString("\n") }
separator(hasContent) == IF hasContent THEN <<"\n">> ELSE <<>>

\* parser.Parse succeeds: the statements are written, then the blank line
FmtParsed ==
    /\ fmt.pc = "parse"
    /\ ~ParseFails(fmt.next)
    /\ LET allParsed == Statements(fmt.next)
           hasContent == fmt.hasContent \/ allParsed # <<>>
       IN  fmt' = [fmt EXCEPT
                !.pc = "for",
                !.prettied = @ \o writeParsed(allParsed)
                               \o separator(hasContent),
                !.hasContent = hasContent,
                !.parses = @ + 1,
                !.rendered = @ + Len(allParsed)]
    /\ UNCHANGED Others

\* the range loop is over: FmtSQL returns the output trimmed on the right
FmtReturn ==
    /\ fmt.pc = "range"
    /\ fmt.stmts = <<>>
    /\ fmt' = [fmt EXCEPT !.pc = "done", !.out = TrimRightFunc(fmt.prettied)]
    /\ UNCHANGED Others

\* the pieces of SQL text the input blobs are made of
Pieces == {<<"a">>, <<"x">>, <<";">>, <<" ">>, <<"\n">>, <<"-", "-", "c">>}

\* the bytes of the pieces ps one after the other
Cat(ps) ==
    LET from[j \in 1..(Len(ps) + 1)] ==
            IF j > Len(ps) THEN <<>> ELSE ps[j] \o from[j + 1]
    IN  from[1]

\* the input blobs
Blobs == {Cat(ps) : ps \in UNION {[1..n -> Pieces] : n \in 0..MaxPieces}}

\* the lists of blobs handed to FmtSQL
Inputs ==
    {<<b>> : b \in Blobs}
        \cup {<<b, t>> : b \in Blobs, t \in {<<"a">>, <<"x">>}}

\* FmtSQL is called with the blobs in
FmtCalled(in) ==
    [pc |-> "range", in |-> in, stmts |-> in, stmt |-> <<>>,
     prettied |-> <<>>, hasContent |-> FALSE, next |-> <<>>, out |-> <<>>,
     err |-> "nil", parses |-> 0, comments |-> 0, rendered |-> 0,
     before |-> <<>>, had |-> 0, first |-> 0]

InitFmt ==
    /\ fmt \in {FmtCalled(in) : in \in Inputs}
    /\ http = NoHttp
    /\ doc = GoNil
    /\ call = NoCall
    /\ NoInvocation

NextFmt ==
    \/ FmtRange
    \/ FmtBlobDone
    \/ FmtChunk
    \/ FmtComment
    \/ FmtSplit
    \/ FmtParseError
    \/ FmtParsed
    \/ FmtReturn

\* one call of FmtSQL
SpecFmt == InitFmt /\ [][NextFmt]_vars

\* one call of FmtSQL that goes on as long as it has a step to take: its
\* goroutine waits for nothing
LiveBlobs ==
    {Cat(ps) : ps \in UNION {[1..n -> {<<";">>, <<" ">>, <<"-", "-", "c", "\n">>}] :
                                n \in 0..MaxPieces}}
        \cup {b \in Blobs : Len(b) <= 2}

InitFmtLive ==
    /\ fmt \in {FmtCalled(<<b>>) : b \in LiveBlobs}
                \cup {FmtCalled(<<b, <<"a">>>>) : b \in LiveBlobs}
    /\ http = NoHttp
    /\ doc = GoNil
    /\ call = NoCall
    /\ NoInvocation

SpecFmtLive == InitFmtLive /\ [][NextFmt]_vars /\ WF_vars(NextFmt)

-----------------------------------------------------------------------------
(* The JSON formatter (sqlfmt.go).  A JSON value is null, a scalar with    *)
(* its canonical string, an array of values, or an object: its entries     *)
(* <<key, value>> in iteration order.  pretty.NestUnder and                *)
(* pretty.BracketDoc belong to the parser's pretty package and are kept as *)
(* the terms they are called with.                                         *)

JSONNull == [t |-> "null"]
JSONScalar(s) == [t |-> "scalar", s |-> s]
JSONArray(e) == [t |-> "array", e |-> e]
JSONObject(e) == [t |-> "object", e |-> e]

NestUnder(head, nested) == [type |-> "NestUnder", a |-> head, b |-> nested]
BracketDoc(l, x, r) == [type |-> "BracketDoc", l |-> l, x |-> x, r |-> r]

\* json.FromString(key).String(): the key in double quotes
FromString(key) == <<"\"">> \o key \o <<"\"">>

RECURSIVE JSONString(_)
\* j.String(): the canonical string of the value j
JSONString(j) ==
    LET elem(k) == IF j.t = "array" THEN JSONString(j.e[k])
                   ELSE FromString(j.e[k][1]) \o <<":", " ">>
                            \o JSONString(j.e[k][2])
        from[k \in 1..(Len(j.e) + 1)] ==
            IF k > Len(j.e) THEN <<>>
            ELSE (IF k > 1 THEN <<",", " ">> ELSE <<>>) \o elem(k) \o from[k + 1]
    IN  CASE j.t = "null" -> <<"n", "u", "l", "l">>
          [] j.t = "scalar" -> j.s
          [] j.t = "array" -> <<"[">> \o from[1] \o <<"]">>
          [] j.t = "object" -> <<"{">> \o from[1] \o <<"}">>

\* j.ObjectIter() returns an iterator for an object, with or without
\* entries, and nil for every other value
ObjectIter(j) == j.t = "object"

\* j.Len(): the number of elements of an array, of entries of an object
JSONLen(j) == IF j.t \in {"array", "object"} THEN Len(j.e) ELSE 0

prettyBracket(l, elems, r) ==
    BracketDoc(Text(<<l>>), Join(<<",">>, elems), Text(<<r>>))

RECURSIVE fmtJSONNode(_)
fmtJSONNode(j) ==
    IF ObjectIter(j)
    THEN prettyBracket("{",
            [k \in 1..Len(j.e) |->
                NestUnder(Concat(Text(FromString(j.e[k][1])), Text(<<":">>)),
                          fmtJSONNode(j.e[k][2]))],
            "}")
    ELSE IF JSONLen(j) > 0
    THEN prettyBracket("[", [k \in 1..Len(j.e) |-> fmtJSONNode(j.e[k])], "]")
    ELSE Text(JSONString(j))

\* arrays and objects have at most MaxJSON elements
MaxJSON == 2

JSONScalars == {JSONNull, JSONScalar(<<"1">>), JSONScalar(<<"\"", "s", "\"">>)}

\* the arrays and the objects over the values vs; the keys of an object are
\* in order
JSONOver(vs) ==
    LET key(k) == [i \in 1..k |-> "a"]
    IN  UNION {{JSONArray(e) : e \in [1..n -> vs]} : n \in 0..MaxJSON}
        \cup UNION {{JSONObject([k \in 1..n |-> <<key(k), e[k]>>]) :
                        e \in [1..n -> vs]} : n \in 0..MaxJSON}

\* the values FmtJSON is called on: scalars, arrays and objects of scalars,
\* and arrays and objects of one of those
JSONValues ==
    LET flat == JSONScalars \cup JSONOver(JSONScalars)
    IN  flat \cup {JSONArray(<<v>>) : v \in flat}
             \cup {JSONObject(<<<<<<"a">>, v>>>>) : v \in flat}

\* FmtJSON has parsed its argument and calls fmtJSONNode(j)
CallFmtJSONNode ==
    /\ call.f = "FmtJSON"
    /\ Made("fmtJSONNode", <<>>, call.d, fmtJSONNode(call.d[1]))

InitJSON ==
    /\ call \in {[f |-> "FmtJSON", s |-> <<>>, d |-> <<j>>, made |-> 0] :
                    j \in JSONValues}
    /\ doc = GoNil
    /\ fmt = NoFmt
    /\ http = NoHttp
    /\ NoInvocation

NextJSON == CallFmtJSONNode

\* one call of FmtJSON
SpecJSON == InitJSON /\ [][NextJSON]_vars

-----------------------------------------------------------------------------
(* The entry paths into the statement pipeline: runCmd and fmtSQLRequest   *)
(* (main.go), which call fmtsql, the wasm wrapper FmtSQL (wasm/main.go)    *)
(* and the library function FmtSQL (sqlfmt.go).  fmtsql is FmtSQL but for  *)
(* trimming with strings.TrimSpace, which does the same to a comment and   *)
(* to the output, neither of which starts with white space.                *)

Entries == {"runCmd", "fmtSQLRequest", "wasm", "FmtSQL"}

\* the tab width of tree.DefaultPrettyCfg(), the default of --tab-width
DefaultTabWidth == 4

\* the line widths and tab widths a caller hands in
EntryWidths == {0, 1}

\* the inputs of the entry paths
EntryInputs ==
    {<<<<"-", "-", "c", "\n", "a", ";">>>>, <<<<"x">>>>,
     <<<<"a", ";", "a">>, <<" ">>>>}

\* the entry path e is called with the widths lw and tw and the blobs in
EntryCalled(e, lw, tw, in) ==
    [pc |-> "entry", entry |-> e, lineWidth |-> lw, tabWidth |-> tw,
     in |-> in, stmts |-> in, stmt |-> <<>>,
     prettied |-> <<>>, hasContent |-> FALSE, next |-> <<>>, out |-> <<>>,
     err |-> "nil", parses |-> 0, comments |-> 0, rendered |-> 0,
     before |-> <<>>, had |-> 0, first |-> 0]

\* runCmd: *flagPrintWidth < 1 or *flagTabWidth < 1: return the error
RunCmdReject ==
    /\ fmt.pc = "entry"
    /\ fmt.entry = "runCmd"
    /\ fmt.lineWidth < 1 \/ fmt.tabWidth < 1
    /\ fmt' = [fmt EXCEPT !.pc = "done",
                          !.err = IF fmt.lineWidth < 1
                                  THEN "line length must be > 0"
                                  ELSE "tab width must be > 0"]
    /\ UNCHANGED Others

\* runCmd: both widths pass; fmtsql(cfg, sl) is called
RunCmdCall ==
    /\ fmt.pc = "entry"
    /\ fmt.entry = "runCmd"
    /\ ~(fmt.lineWidth < 1)
    /\ ~(fmt.tabWidth < 1)
    /\ fmt' = [fmt EXCEPT !.pc = "range"]
    /\ UNCHANGED Others

\* fmtSQLRequest: n and indent are numbers; pcfg.LineWidth = n,
\* pcfg.TabWidth = tabWidth; fmtsql(pcfg, []string{sql}) is called
FmtSQLRequestCall ==
    /\ fmt.pc = "entry"
    /\ fmt.entry = "fmtSQLRequest"
    /\ fmt' = [fmt EXCEPT !.pc = "range"]
    /\ UNCHANGED Others

\* the wasm wrapper: cfg.LineWidth = width; sqlfmt.FmtSQL(cfg, ...) is called
WasmFmtSQLCall ==
    /\ fmt.pc = "entry"
    /\ fmt.entry = "wasm"
    /\ fmt' = [fmt EXCEPT !.pc = "range"]
    /\ UNCHANGED Others

\* the library function FmtSQL is called with the caller's cfg: it starts on
\* its range loop
FmtSQLCall ==
    /\ fmt.pc = "entry"
    /\ fmt.entry = "FmtSQL"
    /\ fmt' = [fmt EXCEPT !.pc = "range"]
    /\ UNCHANGED Others

InitEntry ==
    /\ fmt \in {EntryCalled(e, lw, tw, in) :
                    e \in Entries \ {"wasm"}, lw \in EntryWidths,
                    tw \in EntryWidths, in \in EntryInputs}
               \cup {EntryCalled("wasm", lw, DefaultTabWidth, in) :
                        lw \in EntryWidths, in \in EntryInputs}
    /\ http = NoHttp
    /\ doc = GoNil
    /\ call = NoCall
    /\ NoInvocation

NextEntry ==
    \/ RunCmdReject
    \/ RunCmdCall
    \/ FmtSQLRequestCall
    \/ WasmFmtSQLCall
    \/ FmtSQLCall
    \/ NextFmt

\* one call of one entry path
SpecEntry == InitEntry /\ [][NextEntry]_vars

-----------------------------------------------------------------------------
(* What the properties speak of. *)

\* invocation p has returned from PrettyString
Returned(p) == pc[p] = "done"

RECURSIVE Renderings(_, _)
\* the renderings of d at indent i, one for every choice of a branch at every
\* union: a Line is a newline followed by as many spaces as the Nest nodes
\* that enclose it add up to
Renderings(d, i) ==
    CASE d.type = "nil" -> {<<>>}
      [] d.type = "text" -> {d.s}
      [] d.type = "line" -> {<<"\n">> \o Spaces(i)}
      [] d.type = "concat" ->
            {x \o y : x \in Renderings(d.a, i), y \in Renderings(d.b, i)}
      [] d.type = "nest" -> Renderings(d.d, i + d.n)
      [] d.type = "union" -> Renderings(d.a, i) \cup Renderings(d.b, i)

RECURSIVE LineLengths(_, _)
\* the lengths of the lines of s, the line being read having cur bytes so far
LineLengths(s, cur) ==
    IF s = <<>> THEN {cur}
    ELSE IF Head(s) = "\n" THEN {cur} \cup LineLengths(Tail(s), 0)
    ELSE LineLengths(Tail(s), cur + 1)

\* every line of s is at most w bytes long
Within(s, w) == \A l \in LineLengths(s, 0) : l <= w

\* the number of newline characters in s
Newlines(s) == Cardinality({j \in 1..Len(s) : s[j] = "\n"})

RECURSIVE TextOf(_)
\* the bytes of a document without Line or union, as laid out on one line
TextOf(d) ==
    CASE d.type = "nil" -> <<>>
      [] d.type = "text" -> d.s
      [] d.type = "concat" -> TextOf(d.a) \o TextOf(d.b)
      [] d.type = "nest" -> TextOf(d.d)

\* the flattened form of d as text
FlatText(d) == TextOf(flatten(d))

RECURSIVE HasBareLine(_)
\* d has a Line outside every union
HasBareLine(d) ==
    CASE d.type = "line" -> TRUE
      [] d.type = "concat" -> HasBareLine(d.a) \/ HasBareLine(d.b)
      [] d.type = "nest" -> HasBareLine(d.d)
      [] OTHER -> FALSE

RECURSIVE Unions(_)
\* the number of union nodes on the right-branch spine of d
Unions(d) ==
    CASE d.type = "concat" -> Unions(d.a) + Unions(d.b)
      [] d.type = "nest" -> Unions(d.d)
      [] d.type = "union" -> 1 + Unions(d.b)
      [] OTHER -> 0

-----------------------------------------------------------------------------
(* C1: if some choice of a branch at every union renders the document with *)
(* every line at most w bytes long, every line of the output of            *)
(* PrettyString(doc, w) is at most w bytes long.                           *)
C1_FitsWhenPossible ==
    \A p \in Procs :
        (Returned(p) /\ \E r \in Renderings(doc, 0) : Within(r, width[p]))
            => Within(sink[p], width[p])

(* C2: when the flattened form of the document is at most w bytes long,    *)
(* PrettyString(doc, w) returns exactly the flattened text, on one line.   *)
C2_FlatWhenItFits ==
    \A p \in Procs :
        (Returned(p) /\ Len(FlatText(doc)) <= width[p])
            => sink[p] = FlatText(doc) /\ Newlines(sink[p]) = 0

(* C2 as amended: the same, for the documents of which every Line lies     *)
(* inside a Group.                                                         *)
C2_FlatWhenItFitsGrouped ==
    \A p \in Procs :
        (Returned(p) /\ ~HasBareLine(doc) /\ Len(FlatText(doc)) <= width[p])
            => sink[p] = FlatText(doc) /\ Newlines(sink[p]) = 0

C2_Witness ==
    \E p \in Procs :
        /\ Returned(p)
        /\ ~HasBareLine(doc)
        /\ Unions(doc) = 2
        /\ Len(FlatText(doc)) = width[p]
        /\ Len(sink[p]) = 4

(* C3: for widths w1 <= w2 the output at w2 has no more newlines than the  *)
(* output at w1.                                                           *)
C3_WiderNeverMoreNewlines ==
    \A p \in Procs :
        Returned(p) =>
            \A w1 \in 0..width[p] :
                Newlines(sink[p]) <= Newlines(PrettyString(doc, w1))

C3_Witness ==
    \E p \in Procs :
        /\ Returned(p)
        /\ Newlines(sink[p]) > 0
        /\ \E w1 \in 0..width[p] :
                Newlines(sink[p]) < Newlines(PrettyString(doc, w1))

(* C4: two invocations of PrettyString on the same document and width that *)
(* are not cancelled return the same string and error, however their steps *)
(* are interleaved and whichever ran first.                                *)
C4_Deterministic ==
    \A p, q \in Procs :
        (Returned(p) /\ Returned(q) /\ width[p] = width[q])
            => sink[p] = sink[q] /\ err[p] = err[q]

C4_Witness ==
    /\ Procs = {1, 2}
    /\ Returned(1) /\ Returned(2)
    /\ width[1] = width[2]
    /\ Newlines(sink[1]) = 3
    /\ hist[1].entered > 10

\* the search of invocation p has returned to Pretty
BestReturned(p) == pc[p] = "best" /\ stack[p] = <<>>

(* C5: when PrettyString returns the cancellation error nothing has been   *)
(* written to the sink, also when the token was cancelled before the call; *)
(* and bytes are written only from a resolved stream of a search in which  *)
(* no step observed the cancellation, so that no truncated layout is       *)
(* emitted.                                                                *)
C5_CancelledWritesNothing ==
    \A p \in Procs :
        /\ (Returned(p) /\ err[p] = Canceled) => sink[p] = <<>>
        /\ sink[p] # <<>> => hist[p].seen = {}
        /\ (Returned(p) /\ err[p] = "nil")
                => sink[p] = PrettyString(doc, width[p])

C5_Witness ==
    \E p \in Procs :
        /\ Returned(p)
        /\ err[p] = Canceled
        /\ "later" \in hist[p].seen
        /\ ret[p] # Nil

C7_CancelUnwinds ==
    /\ [](\A p \in Procs :
            hist[p].budget >= 0 =>
                /\ hist[p].since <= hist[p].budget
                /\ hist[p].budget <= 3 * hist[p].pending + 1
                /\ Returned(p) => err[p] = Canceled)
    /\ [][\A p \in Procs :
            ctx[p] => hist'[p].reduced = hist[p].reduced]_vars

C7_Witness ==
    \E p \in Procs :
        /\ Returned(p)
        /\ hist[p].pending >= 4
        /\ hist[p].budget > hist[p].pending + 1
        /\ hist[p].since = hist[p].budget

(* C8: each of the invocations of PrettyString that run concurrently on    *)
(* the same document, with equal or different widths, returns the string   *)
(* it returns when run alone, and no two of them use the same memo table.  *)
C8_ConcurrentAsAlone ==
    \A p \in Procs :
        /\ Returned(p) => sink[p] = PrettyString(doc, width[p])
        /\ \A q \in Procs \ {p} :
                (pc[p] # "new" /\ pc[q] # "new") => exec[p].cache # exec[q].cache

C8_Witness ==
    /\ Procs = {1, 2}
    /\ Returned(1) /\ Returned(2)
    /\ width[1] < width[2]
    /\ Newlines(sink[1]) > Newlines(sink[2])
    /\ hist[2].entered > 10

(* C9: every newline of the output that comes from a Line is followed by   *)
(* as many spaces as the Nest nodes enclosing that Line add up to: the     *)
(* output is the rendering of the document under some choice of branches.  *)
C9_IndentIsSumOfNests ==
    \A p \in Procs : Returned(p) => sink[p] \in Renderings(doc, 0)

(* C10: Concat(Nil, d) and Concat(d, Nil) return d itself, a Go nil        *)
(* argument counting as Nil, so that either renders as d does at every     *)
(* width; Concat returns a concat node of its arguments only when neither  *)
(* is Nil.                                                                 *)
C10_ConcatIdentity ==
    LET norm(x) == IF x = GoNil THEN Nil ELSE x
        a == norm(args[1])
        b == norm(args[2])
    IN  doc # GoNil =>
            /\ a = Nil => doc = b
            /\ b = Nil => doc = a
            /\ (a # Nil /\ b # Nil) <=> doc = concat(a, b)
            /\ \A p \in Procs :
                    Returned(p) =>
                        /\ a = Nil => sink[p] = PrettyString(b, width[p])
                        /\ b = Nil => sink[p] = PrettyString(a, width[p])

C10_Witness ==
    \E p \in Procs :
        /\ Returned(p)
        /\ args[2] \in {Nil, GoNil}
        /\ args[1].type = "union"
        /\ doc = args[1]
        /\ Newlines(sink[p]) > 0

-----------------------------------------------------------------------------
(* The documents a producer builds. *)

RECURSIVE Nodes(_)
\* the nodes of the document d, d itself among them
Nodes(d) ==
    {d} \cup
        CASE d.type \in {"concat", "union"} -> Nodes(d.a) \cup Nodes(d.b)
          [] d.type = "nest" -> Nodes(d.d)
          [] OTHER -> {}

\* the union Bracket writes in place of a Line
TightLine == union(Text(<<>>), Line)

(* C11: every union node of a document built with the exported            *)
(* constructors has a left branch structurally equal to flatten of its     *)
(* right branch.                                                           *)
C11_UnionLeftIsFlatten ==
    \A u \in Nodes(doc) : u.type = "union" => u.a = flatten(u.b)

(* C11 as amended: every union node built by Group has a left branch       *)
(* structurally equal to flatten of its right branch; the only other       *)
(* unions are the two Bracket builds itself, union{Text(""), Line}, whose  *)
(* left branch is the empty text and not flatten(Line) = Text(" ").        *)
C11_GroupLeftIsFlatten ==
    \A u \in Nodes(doc) :
        u.type = "union" => (u = TightLine \/ u.a = flatten(u.b))

C11_Witness ==
    /\ call.f = "Bracket"
    /\ call.made = MaxCalls
    /\ TightLine \in Nodes(doc)
    /\ \E u \in Nodes(call.d[1]) : u.type = "union" /\ Line \in Nodes(u.b)

\* the sequence d1, Text(s), Line, d2, Text(s), Line, ..., dn
Interleaved(s, d) ==
    [j \in 1..(3 * Len(d) - 2) |->
        CASE j % 3 = 1 -> d[(j + 2) \div 3]
          [] j % 3 = 2 -> Text(s)
          [] OTHER -> Line]

\* the concat nodes that hold the documents xs in order, nested to the right
RightNested(xs) ==
    LET nested[j \in 1..Len(xs)] ==
            IF j = Len(xs) THEN xs[j] ELSE concat(xs[j], nested[j + 1])
    IN  IF xs = <<>> THEN Nil ELSE nested[1]

\* d1 s ' ' d2 s ' ' ... dn, each document on one line
FlatJoined(s, d) ==
    LET joined[j \in 1..Len(d)] ==
            IF j = Len(d) THEN FlatText(d[j])
            ELSE FlatText(d[j]) \o s \o <<" ">> \o joined[j + 1]
    IN  joined[1]

(* C13: Join(sep, d1..dn) returns Nil for n = 0 and d1 itself for n = 1;   *)
(* for n >= 2 it returns the concat nodes nested to the right over d1,     *)
(* Text(sep), Line, d2, ..., dn in argument order (a Nil element, the      *)
(* identity of Concat, leaving no node), with no separator after dn, and   *)
(* on one line it reads d1 sep ' ' d2 sep ' ' ... dn.                      *)
C13_JoinInterleaves ==
    call.f = "Join" =>
        LET n == Len(call.d)
        IN  /\ n = 0 => doc = Nil
            /\ n = 1 => doc = call.d[1]
            /\ n >= 2 =>
                /\ doc = RightNested(SelectSeq(Interleaved(call.s, call.d),
                                               LAMBDA x : x # Nil))
                /\ FlatText(doc) = FlatJoined(call.s, call.d)

C13_Witness ==
    /\ call.f = "Join"
    /\ call.made = MaxCalls
    /\ Len(call.d) = 3
    /\ call.d[1].type = "union"
    /\ call.d[2] = Text(<<"a">>)
    /\ call.d[3] = call.d[1]
    /\ doc.type = "concat"

(* C14: flatten of a document built with the exported constructors holds   *)
(* no Line node and no union node: only Nil, Text, Nest and concat nodes.  *)
C14_FlattenHasNoLineNoUnion ==
    \A x \in Nodes(flatten(doc)) :
        x.type \in {"nil", "text", "nest", "concat"}

C14_Witness ==
    /\ call.made = MaxCalls
    /\ TightLine \in Nodes(doc)
    /\ \E x \in Nodes(doc) : x.type = "nest" /\ Line \in Nodes(x.d)
    /\ flatten(doc).type = "concat"

(* C15: flatten is idempotent: flatten(flatten(d)) is structurally equal   *)
(* to flatten(d).                                                          *)
C15_FlattenIdempotent == flatten(flatten(doc)) = flatten(doc)

C15_Witness ==
    /\ call.made = MaxCalls
    /\ call.f = "JoinGroup"
    /\ Len(call.d) = 2
    /\ call.d[1].type = "union"
    /\ flatten(doc) # doc
    /\ flatten(doc).type = "concat"

-----------------------------------------------------------------------------
(* Bracket rendered, and the renderer. *)

(* C12: at a width at which the one-line form of Bracket(l, x, r) does not *)
(* fit, its rendering from column 0 is l alone on the first line, x laid   *)
(* out on the following lines at indent 2, and r alone on the last line at *)
(* indent 0.                                                               *)
C12_BracketsOnTheirOwnLines ==
    \A p \in Procs, c \in BracketCalls :
        (/\ Returned(p)
         /\ doc = Bracket(c[1], c[2], c[3])
         /\ Len(FlatText(doc)) > width[p])
            => \E x \in Renderings(c[2], 2) :
                    sink[p] = c[1] \o <<"\n", " ", " ">> \o x \o <<"\n">> \o c[3]

RECURSIVE StreamNodes(_)
\* the textX and lineX nodes of the stream d, in order
StreamNodes(d) ==
    IF d.type \in {"textX", "lineX"} THEN <<d>> \o StreamNodes(d.d) ELSE <<>>

\* the string s of a textX; a newline and i single spaces for a lineX
NodeBytes(x) ==
    IF x.type = "textX" THEN x.s ELSE <<"\n">> \o [j \in 1..x.i |-> " "]

\* the bytes of the nodes xs one after the other
Bytes(xs) ==
    LET from[j \in 1..(Len(xs) + 1)] ==
            IF j > Len(xs) THEN <<>> ELSE NodeBytes(xs[j]) \o from[j + 1]
    IN  from[1]

(* C20: layout writes to the sink, in the order of the stream best         *)
(* resolved and nothing else, s for each TextX(s, .) and a newline and     *)
(* exactly i spaces for each LineX(i, .); PrettyString returns exactly     *)
(* these bytes.                                                            *)
C20_LayoutWritesTheStream ==
    \A p \in Procs :
        LET stream == StreamNodes(best(width[p], 0, doc))
        IN  /\ pc[p] = "layout" =>
                /\ sink[p] \o Bytes(StreamNodes(ret[p])) = Bytes(stream)
                /\ \E j \in 0..Len(stream) :
                        /\ sink[p] = Bytes(SubSeq(stream, 1, j))
                        /\ StreamNodes(ret[p]) =
                                SubSeq(stream, j + 1, Len(stream))
            /\ Returned(p) => sink[p] = Bytes(stream)

C20_Witness ==
    \E p \in Procs :
        /\ Returned(p)
        /\ Len(StreamNodes(best(width[p], 0, doc))) = 4
        /\ \E j \in 2..(Len(sink[p]) - 2) :
                /\ sink[p][j] = "\n"
                /\ sink[p][j + 1] = " "
                /\ sink[p][j + 2] = "a"

-----------------------------------------------------------------------------
(* The statement pipeline. *)

\* FmtSQL has returned without an error
FmtSucceeded == fmt.pc = "done" /\ fmt.err = "nil"

\* the texts of the statements of the blob b, which are separated by ';',
\* the last one with or without a ';' after it
StatementTexts(b) ==
    LET ps == SplitAt(b, {";"})
    IN  IF Len(ps) > 1 /\ Words(ps[Len(ps)]) = <<>>
        THEN SubSeq(ps, 1, Len(ps) - 1)
        ELSE ps

\* the blob b is made of one or more statements that all parse, separated
\* by ';', without a comment
WellFormed(b) ==
    /\ \A j \in 1..Len(b) : b[j] \notin {"-", "x"}
    /\ \A j \in 1..Len(StatementTexts(b)) : Words(StatementTexts(b)[j]) # <<>>

\* the statement texts of the blobs in, in input order
AllTexts(in) ==
    LET from[j \in 1..(Len(in) + 1)] ==
            IF j > Len(in) THEN <<>> ELSE StatementTexts(in[j]) \o from[j + 1]
    IN  from[1]

\* r1 ";\n\n" r2 ";\n\n" ... rn ";" for the statement texts ts
Terminated(ts) ==
    LET from[j \in 1..Len(ts)] ==
            IF j = Len(ts) THEN PrettyAST(Words(ts[j])) \o <<";">>
            ELSE PrettyAST(Words(ts[j])) \o <<";", "\n", "\n">> \o from[j + 1]
    IN  from[1]

(* C16: for blobs each made of one or more statements that all parse,      *)
(* separated by ';' and without comments, FmtSQL returns the renderings in *)
(* input order, each followed by one ';', with one blank line between      *)
(* consecutive statements and nothing after the last ';'.                  *)
C16_StatementsTerminatedAndSeparated ==
    (fmt.pc = "done" /\ \A j \in 1..Len(fmt.in) : WellFormed(fmt.in[j]))
        => /\ fmt.err = "nil"
           /\ fmt.out = Terminated(AllTexts(fmt.in))

C16_Witness ==
    /\ fmt.pc = "done"
    /\ Len(fmt.in) = 2
    /\ \A j \in 1..Len(fmt.in) : WellFormed(fmt.in[j])
    /\ fmt.rendered = 3
    /\ Len(fmt.in[1]) = 4

(* C17: when parsing a chunk fails FmtSQL returns the parser's error and   *)
(* the empty string, whatever it has accumulated, and takes no further     *)
(* step: no later chunk is parsed or rendered.                             *)
C17_ParseErrorReturnsNothing ==
    fmt.pc # "idle" =>
        /\ (fmt.pc = "parse" /\ ParseFails(fmt.next)) =>
                (ENABLED FmtParseError /\ ~ENABLED FmtParsed)
        /\ fmt.err # "nil" =>
                /\ fmt.err = "syntax error"
                /\ fmt.out = <<>>
                /\ fmt.pc = "done"
                /\ ~ENABLED NextFmt

C17_Witness ==
    /\ fmt.pc # "idle"
    /\ fmt.err # "nil"
    /\ fmt.rendered > 0
    /\ fmt.prettied # <<>>
    /\ fmt.stmts # <<>>

\* byte j of s lies on a line that starts with a comment
OnCommentLine(s, j) ==
    LET nl == {k \in 1..(j - 1) : s[k] = "\n"}
        start == IF nl = {} THEN 1 ELSE Max(nl) + 1
    IN  s[start] = "-"

(* C18: in the output of FmtSQL every comment is followed by at most two   *)
(* newlines before the next comment or statement, and is kept with its     *)
(* trailing white space removed.                                           *)
C18_AtMostTwoNewlinesAfterComment ==
    FmtSucceeded =>
        \A j \in 1..Len(fmt.out) :
            (fmt.out[j] # "\n" /\ OnCommentLine(fmt.out, j)
                /\ j < Len(fmt.out) /\ fmt.out[j + 1] = "\n")
            => /\ ~IsSpace(fmt.out[j])
               /\ ~(/\ j + 3 <= Len(fmt.out)
                     /\ fmt.out[j + 2] = "\n"
                     /\ fmt.out[j + 3] = "\n")

(* C19: the string FmtSQL returns on success has no white space at its     *)
(* start or its end, and is empty when no comment and no statement was     *)
(* written.                                                                *)
C19_NoOuterWhiteSpace ==
    FmtSucceeded =>
        /\ fmt.out # <<>> =>
                (~IsSpace(fmt.out[1]) /\ ~IsSpace(fmt.out[Len(fmt.out)]))
        /\ (fmt.comments = 0 /\ fmt.rendered = 0) => fmt.out = <<>>

C19_Witness ==
    /\ FmtSucceeded
    /\ fmt.in[1] # <<>>
    /\ IsSpace(fmt.in[1][1])
    /\ fmt.comments > 0
    /\ fmt.rendered > 0
    /\ Len(fmt.prettied) >= Len(fmt.out) + 2

\* p is a prefix of s
IsPrefix(p, s) == Len(p) <= Len(s) /\ SubSeq(s, 1, Len(p)) = p

(* C21: when a Write of the sink returns an error while the layout is      *)
(* written, layout stops at the node it was writing: Pretty has returned,  *)
(* the error it returned is the error of the sink, the sink holds what it  *)
(* held when the Write failed, which is a part of the layout that ends in  *)
(* that node, and the nodes after it were never written.                   *)
C21_WriteErrorStopsLayout ==
    \A p \in Procs :
        hist[p].werr # "nil" =>
            /\ Returned(p)
            /\ err[p] = hist[p].werr
            /\ Len(sink[p]) = hist[p].wrote
            /\ ret[p] # Nil
            /\ IsPrefix(sink[p], PrettyString(doc, width[p]))
            /\ Len(sink[p]) + Len(layout(ret[p].d))
                    <= Len(PrettyString(doc, width[p]))

C21_Witness ==
    \E p \in Procs :
        /\ hist[p].werr = "closed pipe"
        /\ Returned(p)
        /\ sink[p] # <<>>
        /\ ret[p].type = "lineX"
        /\ ret[p].d # Nil
        /\ Len(sink[p]) + Len(layout(ret[p])) > Len(PrettyString(doc, width[p]))

(* C22: on every entry path (runCmd, fmtSQLRequest, the wasm wrapper and   *)
(* the library FmtSQL) a line width or a tab width below 1 is rejected     *)
(* with an error before any statement is parsed or rendered: the pipeline  *)
(* is never entered, and the call has returned only with an error.         *)
C22_NonPositiveWidthRejected ==
    (fmt.pc # "idle" /\ (fmt.lineWidth < 1 \/ fmt.tabWidth < 1)) =>
        /\ fmt.pc \in {"entry", "done"}
        /\ fmt.parses = 0
        /\ fmt.rendered = 0
        /\ fmt.pc = "done" =>
                fmt.err \in {"line length must be > 0", "tab width must be > 0"}

(* C23: fmtJSONNode returns, for an object with at least one entry, the    *)
(* bracket document of "{", the entries joined with "," and "}", each      *)
(* entry the value's document nested under the quoted key and ":"; for an  *)
(* array with at least one element the bracket document of "[", the        *)
(* elements' documents joined with "," and "]"; and for every other value, *)
(* the empty array and the empty object among them, one Text holding the   *)
(* canonical string of the value.                                          *)
C23_JSONNodeDocument ==
    (call.f = "fmtJSONNode") =>
        LET j == call.d[1]
        IN  CASE j.t = "object" /\ Len(j.e) >= 1 ->
                    doc = BracketDoc(Text(<<"{">>),
                            Join(<<",">>,
                                 [k \in 1..Len(j.e) |->
                                    NestUnder(
                                        Concat(Text(FromString(j.e[k][1])),
                                               Text(<<":">>)),
                                        fmtJSONNode(j.e[k][2]))]),
                            Text(<<"}">>))
              [] j.t = "array" /\ Len(j.e) >= 1 ->
                    doc = BracketDoc(Text(<<"[">>),
                            Join(<<",">>,
                                 [k \in 1..Len(j.e) |-> fmtJSONNode(j.e[k])]),
                            Text(<<"]">>))
              [] OTHER -> doc = Text(JSONString(j))

(* C24: the search with the memo table returns, for every document and     *)
(* width, exactly the resolved stream that the reduction rules without     *)
(* the table return on the same input.                                     *)
C24_MemoIsTransparent ==
    \A p \in Procs :
        BestReturned(p) => ret[p] = bestUnmemoized(width[p], 0, doc)

RECURSIVE FirstLineLength(_)
\* the bytes of the text atoms of the stream x before its first line break
FirstLineLength(x) ==
    IF x = Nil \/ x.type = "lineX" THEN 0
    ELSE Len(x.s) + FirstLineLength(x.d)

\* the stream for the union u met at column k and indent 0 with the
\* documents rest after it, as the claim describes it: the layout that
\* starts with u.a when its first line ends within the width w, and
\* otherwise the layout that starts with u.b, at the same indent and column
UnionChoice(w, k, u, rest) ==
    LET A == best(w, k, Concat(u.a, rest))
    IN  IF k <= w /\ k + FirstLineLength(A) <= w THEN A
        ELSE best(w, k, Concat(u.b, rest))

(* C25: at a union met at column k the search returns the layout that      *)
(* starts with the left branch if and only if k <= w and k plus the bytes  *)
(* of text before the first line break of that layout is at most w, and    *)
(* otherwise the layout that starts with the right branch at the same      *)
(* indent and column; and whenever better tests fits(r, x), the test is    *)
(* true exactly when r >= 0 and the text before the first line break of x  *)
(* is at most r bytes.                                                     *)
C25_UnionChoosesByFits ==
    \A p \in Procs :
        /\ (BestReturned(p) /\ args[1].type = "union") =>
                ret[p] = UnionChoice(width[p], 0, args[1], args[2])
        /\ (BestReturned(p) /\ args[1].type = "text"
                /\ args[2].type = "union") =>
                ret[p] = textX(args[1].s,
                               UnionChoice(width[p], Len(args[1].s),
                                           args[2], Nil))
        /\ AtBe(p, "better") =>
                LET r == width[p] - Top(M(p)).k
                IN  fits(r, ret[p]) <=>
                        (r >= 0 /\ FirstLineLength(ret[p]) <= r)

RECURSIVE DocSize(_)
\* the number of constructors of the document d
DocSize(d) ==
    CASE d.type \in {"concat", "union"} -> 1 + DocSize(d.a) + DocSize(d.b)
      [] d.type = "nest" -> 1 + DocSize(d.d)
      [] OTHER -> 1

RECURSIVE WorklistSize(_)
WorklistSize(x) ==
    IF x = <<>> THEN 0 ELSE DocSize(Head(x).d) + WorklistSize(Tail(x))

\* the size of the worklist of the innermost pending call of be
Work(p) == WorklistSize(Elems(M(p), Top(M(p)).x))

(* C26: an invocation of best that is never cancelled returns: every call  *)
(* of be made by a pending call is on a worklist with fewer constructors   *)
(* than the worklist of its caller (a constructor was removed, or an atom  *)
(* was emitted), the left branch stored at a union has no union in it,     *)
(* and the outermost call returns in the end.                              *)
C26_BestTerminates ==
    /\ [][\A p \in Procs :
            (stack[p] # <<>> /\ Len(stack'[p]) > Len(stack[p]))
                => Work(p)' < Work(p)]_vars
    /\ [](\A p \in Procs : AtBe(p, "better") =>
            \A n \in Nodes(M(p).heap[Top(M(p)).x.arr][Top(M(p)).x.off + 1].d.a) :
                n.type # "union")
    /\ <>BestReturned(1)

C26_Witness ==
    /\ BestReturned(1)
    /\ hist[1].reduced >= 8
    /\ Unions(doc) >= 2

RECURSIVE IsDocument(_)
\* d is Nil, a text, Line, or a concat, nest or union of documents
IsDocument(d) ==
    CASE d.type \in {"nil", "text", "line"} -> TRUE
      [] d.type \in {"concat", "union"} -> IsDocument(d.a) /\ IsDocument(d.b)
      [] d.type = "nest" -> IsDocument(d.d)
      [] OTHER -> FALSE

RECURSIVE IsStream(_)
\* x is Nil, or a textX or lineX node followed by a stream
IsStream(x) ==
    CASE x = Nil -> TRUE
      [] x.type \in {"textX", "lineX"} -> IsStream(x.d)
      [] OTHER -> FALSE

(* C27: whenever the context is cancelled, or never, no function reaches    *)
(* its panic on an unknown type: every element of every worklist of be is  *)
(* a document, so be takes one of its known branches; what fits and        *)
(* layout are handed is a stream of textX and lineX nodes ending in Nil;   *)
(* and flatten, called by Group on the right branch of each union, meets   *)
(* documents only.                                                         *)
C27_NoUnknownType ==
    \A p \in Procs :
        /\ \A a \in DOMAIN heap[p] : \A k \in DOMAIN heap[p][a] :
                IsDocument(heap[p][a][k].d)
        /\ AtBe(p, "be") => beCase(M(p), ctx[exec[p].done]) # "panic"
        /\ pc[p] \in {"best", "layout"} => IsStream(ret[p])
        /\ AtBe(p, "better") =>
                ~fitsPanics(exec[p].w - Top(M(p)).k, ret[p])
        /\ pc[p] = "layout" => ~layoutPanics(ret[p])
        /\ doc # GoNil =>
                \A u \in Nodes(doc) :
                    u.type = "union" => ~flattenPanics(u.b)

C27_Witness ==
    \E p \in Procs :
        /\ AtBe(p, "better")
        /\ ctx[p]
        /\ hist[p].seen = {"later"}
        /\ ret[p].type = "textX"
        /\ ret[p].d = Nil
        /\ Len(stack[p]) >= 2

(* C28: when an iteration of the inner loop of FmtSQL ends, the newline    *)
(* that separates it from the next is appended if and only if the          *)
(* iteration wrote a comment or a statement; an iteration whose chunk      *)
(* parses to no statement and that wrote no comment leaves prettied as it  *)
(* was when the iteration began.                                           *)
C28_SeparatorIffContent ==
    [][(fmt.pc = "parse" /\ fmt'.pc = "for") =>
            IF fmt'.comments > fmt.had \/ fmt'.rendered > fmt.rendered
            THEN fmt'.prettied
                    = fmt.prettied \o writeParsed(Statements(fmt.next))
                                   \o <<"\n">>
            ELSE fmt'.prettied = fmt.before]_vars

C28_Witness ==
    /\ fmt.pc = "for"
    /\ fmt.parses >= 2
    /\ fmt.next = <<";">>
    /\ fmt.comments = 0
    /\ fmt.prettied = fmt.before
    /\ fmt.prettied # <<>>
    /\ fmt.stmt # <<>>

(* C29: every call of FmtSQL returns.  In every iteration of the inner     *)
(* loop the remaining text gets shorter: a comment that is consumed takes  *)
(* at least two bytes, the split leaves a strictly shorter text or the     *)
(* empty text, and when the chunk is handed to the parser less text        *)
(* remains than when the iteration began.                                  *)
C29_FmtSQLTerminates ==
    /\ [](fmt.pc = "parse" => Len(fmt.stmt) < fmt.first)
    /\ [][(fmt.pc = "comments" /\ fmt'.pc = "comments")
                => Len(fmt'.stmt) + 2 <= Len(fmt.stmt)]_vars
    /\ [][(fmt.pc = "comments" /\ fmt'.pc = "parse")
                => (fmt'.stmt = <<>> \/ Len(fmt'.stmt) < Len(fmt.stmt))]_vars
    /\ <>(fmt.pc = "done")

C29_Witness ==
    /\ fmt.pc = "done"
    /\ fmt.err = "nil"
    /\ Len(fmt.in) = 2
    /\ fmt.in[1] = <<" ", "-", "-", "c", "\n", ";", ";">>
    /\ fmt.parses >= 3

(* C30: whatever the interleaving of the requests and of their             *)
(* cancellations, every result stored in the cache of Fmt under a query is *)
(* the result of formatting that query undisturbed, and so is every        *)
(* response sent from the cache.                                           *)
C30_CacheHoldsFullResults ==
    /\ \A q \in DOMAIN http.m : http.m[q] = PrettyString(doc, q)
    /\ \A p \in DOMAIN http.res :
            http.res[p] = PrettyString(doc, width[p]) \/ ctx[p]

====
